---- MODULE Spec2Model ----
(***************************************************************************)
(* cardapio-pix: the final revision of the PIX payment service             *)
(* (src/server.js lines 1-420).  POST /pix and POST /webhook/mercadopago   *)
(* are modelled as handlers that take one step per awaited call; the       *)
(* payment processor (Mercado Pago) and the document database (Firestore)  *)
(* are the environment.                                                    *)
(*                                                                         *)
(* Strings are sequences of tokens: <<"a">>, <<" ", "a">>.  The token " "  *)
(* is whitespace and "|" is the separator of the idempotency key.  A       *)
(* missing value (undefined / null) is Null.                               *)
(***************************************************************************)
EXTENDS Integers, Sequences, FiniteSets, TLC

\* ---------------------------------------------------------------- bounds
MaxNow == 2       \* the clock runs over 0..MaxNow (units of 15 minutes)
MaxPay == 2       \* payments the processor ever holds
MaxReq == 3       \* requests the service ever receives

\* ------------------------------------------------------ program constants
ThirtyMin == 2    \* 30 * 60 * 1000 ms, in units of 15 minutes

\* ----------------------------------------------------------------- values
Null   == <<"undefined">>
Empty  == <<>>
NaN    == -1
NoTime == -1

PENDING   == <<"pending">>
APPROVED  == <<"approved">>
REJECTED  == <<"rejected">>
CANCELLED == <<"cancelled">>
EM_PREPARO == <<"em_preparo">>

Rids     == {<<"a">>, <<"b">>}
OrderIds == {<<"o">>}
Slots    == {1, 2}

\* ---------------------------------------------------------------- helpers
RECURSIVE TrimLeft(_)
TrimLeft(s) ==
  IF s = <<>> THEN s
  ELSE IF Head(s) = " " THEN TrimLeft(Tail(s)) ELSE s

RECURSIVE TrimRight(_)
TrimRight(s) ==
  IF s = <<>> THEN s
  ELSE IF s[Len(s)] = " " THEN TrimRight(SubSeq(s, 1, Len(s) - 1)) ELSE s

\* String(v ?? "").trim()
safeStr(v) == IF v = Null THEN Empty ELSE TrimRight(TrimLeft(v))

\* JavaScript truthiness of a string-or-missing value, and a || b
Truthy(v) == v # Null /\ v # Empty
Or(a, b) == IF Truthy(a) THEN a ELSE b

DigitChar == <<"0", "1", "2", "3", "4", "5", "6", "7", "8", "9">>

\* `${n}` for a non-negative integer
RECURSIVE Digits(_)
Digits(n) ==
  IF n < 10 THEN <<DigitChar[n + 1]>>
  ELSE Digits(n \div 10) \o <<DigitChar[(n % 10) + 1]>>

DigitVal(c) == IF \E i \in 1..10 : DigitChar[i] = c
               THEN (CHOOSE i \in 1..10 : DigitChar[i] = c) - 1
               ELSE NaN

\* the number a digit string denotes, NaN when it denotes none
RECURSIVE ParseDigits(_)
ParseDigits(s) ==
  IF s = <<>> THEN NaN
  ELSE IF Len(s) = 1 THEN DigitVal(s[1])
  ELSE LET hi == ParseDigits(SubSeq(s, 1, Len(s) - 1))
           lo == DigitVal(s[Len(s)])
       IN IF hi = NaN \/ lo = NaN THEN NaN ELSE hi * 10 + lo

\* new Date(t).toISOString() and new Date(iso).getTime()
toISOString(t) == <<"T">> \o Digits(t)
getTime(iso) == IF iso # <<>> /\ Head(iso) = "T" THEN ParseDigits(Tail(iso)) ELSE NaN

\* nowIsoPlusMinutes adding half the minutes
nowIsoPlusMinutes_Half(t, min) == <<"T">> \o Digits(t + (min \div 2))

nowIsoPlusMinutes(t, min) == toISOString(t + min)

Sha256(raw) == <<"sha256:">> \o raw

\* makeIdempotencyKey hashing the restaurant and the order alone
makeIdempotencyKey_NoWindow(rid, orderId, totalCentsBucket) ==
  Sha256(<<"pix", "|">> \o rid \o <<"|">> \o orderId)

makeIdempotencyKey(rid, orderId, totalCentsBucket) ==
  Sha256(<<"pix", "|">> \o rid \o <<"|">> \o orderId \o <<"|">> \o totalCentsBucket)

isFuture(iso, t) ==
  IF ~Truthy(iso) THEN FALSE
  ELSE getTime(iso) # NaN /\ getTime(iso) > t

\* total is carried in thousandths: Number(total.toFixed(2)) keeps hundredths
toFixed2(mills) == ((mills + 5) \div 10) * 10
totalCentsOf(mills) == toFixed2(mills) \div 10

\* ------------------------------------------------------------------ state
VARIABLES
  now,              \* Date.now(), in units of 15 minutes
  WEBHOOK_SECRET,   \* process.env.WEBHOOK_SECRET || ""
  payments,         \* the processor's payments, by numeric id
  priv,             \* restaurants/{rid}/orders/{orderId}
  pub,              \* restaurants/{rid}/orders_public/{orderId}
  legacyPriv,       \* orders/{orderId}
  legacyPub,        \* orders_public/{orderId}
  slot,             \* the requests in flight: position, locals, response
  nReq              \* requests received so far

vars == <<now, WEBHOOK_SECRET, payments, priv, pub, legacyPriv, legacyPub, slot, nReq>>

PayIds == 1..MaxPay

\* a payment as the processor returns it
PayNil == [id |-> 0, status |-> Null, status_detail |-> Null,
           date_of_expiration |-> Null, metadata_rid |-> Null,
           metadata_orderId |-> Null, external_reference |-> Null,
           transaction_amount |-> 0, qr_code |-> Null, key |-> Null]

\* the mp sub-record of an order document
MpNil == [payment_id |-> Null, status |-> Null, status_detail |-> Null,
          rid |-> Null, orderId |-> Null, date_of_expiration |-> Null]

\* items stands for the fields of an order that the ordering system owns
DocNil == [exists |-> FALSE, mp |-> MpNil, status |-> Null, paidAt |-> NoTime,
           items |-> Null]

\* an order as the ordering system created it
DocNew == [DocNil EXCEPT !.exists = TRUE, !.status = PENDING, !.items = <<"x">>]

ResNil == [code |-> 0, payment_id |-> Null, status |-> Null,
           status_detail |-> Null, qr_code |-> Null, qr_code_base64 |-> Null,
           reused |-> "none", ignored |-> "none"]

\* what a sequence of POST /pix requests remembers of its earlier requests
HistNil == [last |-> ResNil, creates |-> 0, failed |-> FALSE]

SlotNil == [kind |-> "none", pc |-> "idle", rid |-> Empty, orderId |-> Empty,
            total |-> [finite |-> FALSE, mills |-> 0], paymentId |-> Empty, secret |-> Null,
            extra |-> [status |-> Null, rid |-> Null, orderId |-> Null],
            expires |-> Null, idempotencyKey |-> Null,
            existing |-> PayNil, p |-> PayNil,
            mpData |-> MpNil, promote |-> FALSE, res |-> ResNil,
            log |-> <<>>, tGet |-> NoTime, tKey |-> NoTime, fetchNo |-> 0,
            errStatus |-> 0, hist |-> HistNil]

Orders == Rids \X OrderIds

\* the orders the ordering system has placed
Placed == {<<<<"a">>, <<"o">> >>}

InitWith(secrets) ==
  /\ now = 0
  /\ WEBHOOK_SECRET \in secrets
  /\ payments = [i \in PayIds |-> PayNil]
  /\ priv = [o \in Orders |-> IF o \in Placed THEN DocNew ELSE DocNil]
  /\ pub  = [o \in Orders |-> IF o \in Placed THEN DocNew ELSE DocNil]
  /\ legacyPriv = [o \in OrderIds |-> DocNil]
  /\ legacyPub  = [o \in OrderIds |-> DocNil]
  /\ slot = [s \in Slots |-> SlotNil]
  /\ nReq = 0

\* the service as deployed: a webhook secret is set
Init == InitWith({<<"s">>})

\* ------------------------------------------------------------ the database
\* MergeSet without the paidAt of lines 352 and 361
MergeSet_NoPaidAt(doc, mpData, promote, t) ==
  [exists |-> TRUE,
   mp     |-> mpData,
   status |-> IF promote THEN EM_PREPARO ELSE doc.status,
   paidAt |-> doc.paidAt,
   items  |-> doc.items]

\* MergeSet without {merge: true}: the document is replaced
MergeSet_Replace(doc, mpData, promote, t) ==
  [exists |-> TRUE,
   mp     |-> mpData,
   status |-> IF promote THEN EM_PREPARO ELSE Null,
   paidAt |-> IF promote THEN t ELSE NoTime,
   items  |-> Null]

\* set(ref, {mp, updatedAt [, status, paidAt]}, {merge: true}).  paidAt
\* resolves to the commit time; the updatedAt stamps (of the document and
\* of mp) are rewritten by every set and read by nothing, and are left out
MergeSet(doc, mpData, promote, t) ==
  [exists |-> TRUE,
   mp     |-> mpData,
   status |-> IF promote THEN EM_PREPARO ELSE doc.status,
   paidAt |-> IF promote THEN t ELSE doc.paidAt,
   items  |-> doc.items]

\* BatchCommit without the sets of the public documents
BatchCommit_NoPublic(rid, orderId, mpData, promote) ==
  /\ priv' = [priv EXCEPT ![<<rid, orderId>>] = MergeSet(@, mpData, promote, now)]
  /\ legacyPriv' = [legacyPriv EXCEPT ![orderId] = MergeSet(@, mpData, promote, now)]
  /\ UNCHANGED <<pub, legacyPub>>

\* batch.commit() of the four set() calls every handler queues
BatchCommit(rid, orderId, mpData, promote) ==
  /\ priv' = [priv EXCEPT ![<<rid, orderId>>] = MergeSet(@, mpData, promote, now)]
  /\ pub'  = [pub  EXCEPT ![<<rid, orderId>>] = MergeSet(@, mpData, promote, now)]
  /\ legacyPriv' = [legacyPriv EXCEPT ![orderId] = MergeSet(@, mpData, promote, now)]
  /\ legacyPub'  = [legacyPub  EXCEPT ![orderId] = MergeSet(@, mpData, promote, now)]

dbVars == <<priv, pub, legacyPriv, legacyPub>>

\* ----------------------------------------------------------- the processor
HasPayment(idStr) == \E i \in PayIds : payments[i].id = i /\ Digits(i) = idStr
PaymentOf(idStr) == payments[CHOOSE i \in PayIds : payments[i].id = i /\ Digits(i) = idStr]

NumPayments == Cardinality({i \in PayIds : payments[i].id # 0})

StatusDetailOf(st) ==
  IF st = PENDING THEN <<"pending_waiting_transfer">>
  ELSE IF st = APPROVED THEN <<"accredited">>
  ELSE IF st = CANCELLED THEN <<"expired">>
  ELSE Null

\* the id of a payment as a string, when it has one
IdStr(p) == IF p.id # 0 THEN Digits(p.id) ELSE Null

\* safeStr(x?.status_detail || "") || null
DetailOrNull(d) == IF Truthy(safeStr(Or(d, Empty))) THEN safeStr(Or(d, Empty)) ELSE Null

\* ------------------------------------------------------------ request input
\* Number(req.body?.total): a finite number (in thousandths) or NaN
TotalInputs == {[finite |-> FALSE, mills |-> 0], [finite |-> TRUE, mills |-> 0],
                [finite |-> TRUE, mills |-> 1000], [finite |-> TRUE, mills |-> 2000]}
RidInputs     == {Null, <<" ", "a">>}
OrderIdInputs == {Null, <<"o", " ">>}

\* err?.status || err?.response?.status || 500  (0: the error carries none)
ErrStatuses == {0, 503}
\* ErrCode without the default of line 281
ErrCode_NoDefault(st) == st

ErrCode(st) == IF st # 0 THEN st ELSE 500

\* a new request is served in the lowest free slot
Free(s) == /\ slot[s].pc \in {"idle", "done"}
           /\ \A q \in Slots : q < s => slot[q].pc \notin {"idle", "done"}

Respond(r, res) == [r EXCEPT !.pc = "done", !.res = res]

\* the position of the latest answer of paymentApi.get among those the
\* requests in the slots have had
LastFetch == CHOOSE n \in 0..MaxReq : /\ \A q \in Slots : slot[q].fetchNo <= n
                                      /\ \E q \in Slots : slot[q].fetchNo = n
Logged(r, ev) == [r EXCEPT !.log = Append(@, ev)]

\* ------------------------------------------------------------- POST /pix
\* PixInvalid as before the multi-restaurant revision: no rid is asked for
PixInvalid_NoRid(total, orderId, rid) ==
  \/ ~total.finite \/ total.mills <= 0
  \/ ~Truthy(orderId)

\* lines 113-121: the three tests that end the request with HTTP 400
PixInvalid(total, orderId, rid) ==
  \/ ~total.finite \/ total.mills <= 0
  \/ ~Truthy(orderId)
  \/ ~Truthy(rid)

\* lines 100-128: parse, validate, issue privRef.get()
PixStartWith(s, totals, orderIds, rids, fresh) ==
  /\ Free(s)
  /\ nReq < MaxReq
  /\ \E total \in totals, oIn \in orderIds, rIn \in rids :
       LET orderId == safeStr(oIn)
           rid     == safeStr(rIn)
           r == [fresh EXCEPT !.kind = "pix", !.rid = rid, !.orderId = orderId,
                              !.total = total]
       IN slot' = [slot EXCEPT ![s] =
            IF PixInvalid(total, orderId, rid)
            THEN Respond(r, [ResNil EXCEPT !.code = 400])
            ELSE [r EXCEPT !.pc = "read"]]
  /\ nReq' = nReq + 1
  /\ UNCHANGED <<now, WEBHOOK_SECRET, payments, dbVars>>

\* any request to the endpoint
PixStart(s) == PixStartWith(s, TotalInputs, OrderIdInputs, RidInputs, SlotNil)

\* the checkout page asking for the charge of the placed order: the same
\* body on every click and every retry
PixRetry(s) ==
  PixStartWith(s, {[finite |-> TRUE, mills |-> 1000]}, {<<"o">>}, {<<"a">>}, SlotNil)

\* requests for the charge of the order with one amount or another
PixAnyTotal(s) ==
  PixStartWith(s, {[finite |-> TRUE, mills |-> 1000], [finite |-> TRUE, mills |-> 2000]},
               {<<"o">>}, {<<"a">>}, SlotNil)

\* the sequence so far, as the request after r sees it: the last answer,
\* and the create calls and failed calls since the last new charge
History(r) ==
  IF r.kind # "pix" THEN r.hist
  ELSE IF r.res.code = 200 /\ r.res.reused = "false"
  THEN [last |-> r.res, creates |-> 1, failed |-> FALSE]
  ELSE [last |-> r.res,
        creates |-> r.hist.creates
                      + Cardinality({i \in 1..Len(r.log) :
                                       r.log[i] \in {"create", "createFail"}}),
        failed |-> r.hist.failed
                     \/ \E i \in 1..Len(r.log) :
                          r.log[i] \in {"readFail", "getFail", "commitFail", "createFail"}]

\* the checkout page asking again, after the answer to its last request
PixFollow(s) ==
  PixStartWith(s, {[finite |-> TRUE, mills |-> 1000]}, {<<"o">>}, {<<"a">>},
               [SlotNil EXCEPT !.hist = History(slot[s])])

\* ToCreate with the expiration in the key in place of the bucket
ToCreate_KeyFromExpires(r, t) ==
  LET totalCents == totalCentsOf(r.total.mills)
  IN [r EXCEPT !.pc = "create", !.mpData = MpNil, !.tKey = t,
               !.expires = nowIsoPlusMinutes(t, ThirtyMin),
               !.idempotencyKey =
                  makeIdempotencyKey(r.rid, r.orderId,
                                     Digits(totalCents) \o <<"|">>
                                       \o nowIsoPlusMinutes(t, ThirtyMin))]

\* ToCreate with the key taken from Date.now() itself, not from its bucket
ToCreate_KeyFromNow(r, t) ==
  LET totalCents == totalCentsOf(r.total.mills)
  IN [r EXCEPT !.pc = "create", !.mpData = MpNil, !.tKey = t,
               !.expires = nowIsoPlusMinutes(t, ThirtyMin),
               !.idempotencyKey =
                  makeIdempotencyKey(r.rid, r.orderId,
                                     Digits(totalCents) \o <<"|">> \o Digits(t))]

\* lines 186-194: expires, totalCents, bucket and the key, then create is issued
ToCreate(r, t) ==
  LET totalCents == totalCentsOf(r.total.mills)
      bucket     == t \div ThirtyMin
  IN [r EXCEPT !.pc = "create", !.mpData = MpNil, !.tKey = t,
               !.expires = nowIsoPlusMinutes(t, ThirtyMin),
               !.idempotencyKey =
                  makeIdempotencyKey(r.rid, r.orderId,
                                     Digits(totalCents) \o <<"|">> \o Digits(bucket))]

\* lines 128-131: the snapshot of the private document arrives (or the read throws)
PixRead(s) ==
  /\ slot[s].kind = "pix" /\ slot[s].pc = "read"
  /\ LET r    == slot[s]
         snap == priv[<<r.rid, r.orderId>>]
         existingPaymentId == IF snap.exists THEN safeStr(snap.mp.payment_id) ELSE Empty
     IN \/ slot' = [slot EXCEPT ![s] =
               IF Truthy(existingPaymentId)
               THEN [Logged(r, "read") EXCEPT !.pc = "get", !.paymentId = existingPaymentId]
               ELSE ToCreate(Logged(r, "read"), now)]
        \/ slot' = [slot EXCEPT ![s] =
               Respond(Logged(r, "readFail"), [ResNil EXCEPT !.code = 500])]
  /\ UNCHANGED <<now, WEBHOOK_SECRET, payments, dbVars, nReq>>

\* ReuseCatch passing the error on to the outer catch
ReuseCatch_Rethrow(r, ev, t) ==
  Respond(Logged(r, ev), [ResNil EXCEPT !.code = ErrCode(0)])

\* lines 180-183: the catch of the reuse block warns and lets the handler
\* go on to create
ReuseCatch(r, ev, t) == ToCreate(Logged(r, ev), t)

\* PixMpData leaving the payment id out of the record
PixMpData_NoId(r, p, paymentId, status, statusDetail, exp) ==
  [payment_id |-> Empty, status |-> status, status_detail |-> statusDetail,
   rid |-> r.rid, orderId |-> r.orderId, date_of_expiration |-> exp]

\* lines 149-157 and 238-246: the mp record a /pix batch sets
PixMpData(r, p, paymentId, status, statusDetail, exp) ==
  [payment_id |-> paymentId, status |-> status, status_detail |-> statusDetail,
   rid |-> r.rid, orderId |-> r.orderId, date_of_expiration |-> exp]

\* ReuseDecision without the check of line 137
ReuseDecision_NoConflict(exStatus, exExp, t) ==
  IF exStatus = PENDING /\ isFuture(exExp, t) THEN "reuse" ELSE "create"

\* ReuseDecision with line 146 testing only the status
ReuseDecision_ExpiredReused(exStatus, exExp, t) ==
  IF exStatus = APPROVED THEN "conflict"
  ELSE IF exStatus = PENDING THEN "reuse"
  ELSE "create"

\* ReuseDecision with line 146 testing only the expiration
ReuseDecision_AnyStatus(exStatus, exExp, t) ==
  IF exStatus = APPROVED THEN "conflict"
  ELSE IF isFuture(exExp, t) THEN "reuse"
  ELSE "create"

\* lines 137 and 146: what the handler does with the status of the
\* order's existing payment
ReuseDecision(exStatus, exExp, t) ==
  IF exStatus = APPROVED THEN "conflict"
  ELSE IF exStatus = PENDING /\ isFuture(exExp, t) THEN "reuse"
  ELSE "create"

\* Reusable reusing a payment only for a request of the same amount
Reusable_SameAmount(r, existing, t) ==
  LET decision == ReuseDecision(safeStr(existing.status),
                                safeStr(existing.date_of_expiration), t)
  IN IF decision = "reuse" /\ existing.transaction_amount # toFixed2(r.total.mills)
     THEN "create"
     ELSE decision

\* lines 133-146: the decision of request r on the record of its order's
\* payment
Reusable(r, existing, t) ==
  ReuseDecision(safeStr(existing.status), safeStr(existing.date_of_expiration), t)

\* lines 133-184: paymentApi.get answers (or throws) and the reuse decision
PixGet(s) ==
  /\ slot[s].kind = "pix" /\ slot[s].pc = "get"
  /\ LET r == slot[s]
     IN \/ \* the lookup throws: warn and go on to create
           slot' = [slot EXCEPT ![s] = ReuseCatch(r, "getFail", now)]
        \/ /\ HasPayment(r.paymentId)
           /\ LET existing == PaymentOf(r.paymentId)
                  exStatus == safeStr(existing.status)
                  exExp    == safeStr(existing.date_of_expiration)
                  r1 == [Logged(r, "get") EXCEPT !.existing = existing, !.tGet = now]
                  decision == Reusable(r, existing, now)
                  pid == safeStr(Or(IdStr(existing), r.paymentId))
              IN slot' = [slot EXCEPT ![s] =
                   IF decision = "conflict"
                   THEN Respond(r1, [ResNil EXCEPT !.code = 409, !.payment_id = pid,
                                                   !.status = exStatus])
                   ELSE IF decision = "reuse"
                   THEN [r1 EXCEPT !.pc = "reuseCommit",
                           !.mpData = PixMpData(r, existing, pid, exStatus,
                                                DetailOrNull(existing.status_detail),
                                                Or(exExp, Null))]
                   ELSE ToCreate(r1, now)]
  /\ UNCHANGED <<now, WEBHOOK_SECRET, payments, dbVars, nReq>>

\* lines 159-183: the refresh batch commits and the existing QR is returned,
\* or the commit throws inside the reuse try block
PixReuseCommit(s) ==
  /\ slot[s].kind = "pix" /\ slot[s].pc = "reuseCommit"
  /\ LET r == slot[s]
     IN \/ /\ BatchCommit(r.rid, r.orderId, r.mpData, FALSE)
           /\ slot' = [slot EXCEPT ![s] =
                Respond(Logged(r, "commit"),
                        [ResNil EXCEPT !.code = 200,
                                       !.payment_id = r.mpData.payment_id,
                                       !.status = r.mpData.status,
                                       !.qr_code = IF r.existing.qr_code = Null THEN Empty
                                                   ELSE r.existing.qr_code,
                                       !.qr_code_base64 = IF r.existing.qr_code = Null THEN Empty
                                                          ELSE r.existing.qr_code,
                                       !.reused = "true"])]
        \/ /\ slot' = [slot EXCEPT ![s] = ReuseCatch(r, "commitFail", now)]
           /\ UNCHANGED dbVars
  /\ UNCHANGED <<now, WEBHOOK_SECRET, payments, nReq>>

\* the record the processor builds for paymentApi.create({body, requestOptions})
NewPayment(i, st, r) ==
  [id |-> i, status |-> st, status_detail |-> StatusDetailOf(st),
   date_of_expiration |-> r.expires,
   metadata_rid |-> r.rid, metadata_orderId |-> r.orderId,
   external_reference |-> r.orderId,
   transaction_amount |-> toFixed2(r.total.mills),
   qr_code |-> <<"qr">> \o Digits(i), key |-> r.idempotencyKey]

\* AfterCreate without the check of line 226
AfterCreate_PersistAnyway(r, result) ==
  [Logged(r, "create") EXCEPT
     !.p = result, !.pc = "commit",
     !.mpData = PixMpData(r, result, safeStr(IdStr(result)), safeStr(result.status),
                          DetailOrNull(result.status_detail),
                          Or(safeStr(result.date_of_expiration), r.expires))]

\* lines 223-246: the part of the handler that runs on create's result
AfterCreate(r, result) ==
  LET status       == safeStr(result.status)
      statusDetail == DetailOrNull(result.status_detail)
      paymentId    == safeStr(IdStr(result))
      r1 == [Logged(r, "create") EXCEPT !.p = result]
  IN IF status # PENDING
     THEN Respond(r1, [ResNil EXCEPT !.code = 400, !.status = status,
                                     !.status_detail = statusDetail,
                                     !.payment_id = IdStr(result)])
     ELSE [r1 EXCEPT !.pc = "commit",
             !.mpData = PixMpData(r, result, paymentId, status, statusDetail,
                                  Or(safeStr(result.date_of_expiration), r.expires))]

\* lines 194-233: the processor runs create (a key it has seen returns the
\* payment made with it), or create throws
PixCreate(s) ==
  /\ slot[s].kind = "pix" /\ slot[s].pc = "create"
  /\ LET r == slot[s]
         seen == {i \in PayIds : payments[i].id = i /\ payments[i].key = r.idempotencyKey}
     IN \/ /\ seen # {}
           /\ \E i \in seen : slot' = [slot EXCEPT ![s] = AfterCreate(r, payments[i])]
           /\ UNCHANGED payments
        \/ /\ seen = {}
           /\ NumPayments < MaxPay
           /\ \E st \in {PENDING, REJECTED} :
                LET i == NumPayments + 1
                    result == NewPayment(i, st, r)
                IN /\ payments' = [payments EXCEPT ![i] = result]
                   /\ slot' = [slot EXCEPT ![s] = AfterCreate(r, result)]
        \/ /\ \E st \in ErrStatuses :
                slot' = [slot EXCEPT ![s] =
                   Respond([Logged(r, "createFail") EXCEPT !.errStatus = st],
                           [ResNil EXCEPT !.code = ErrCode(st)])]
           /\ UNCHANGED payments
  /\ UNCHANGED <<now, WEBHOOK_SECRET, dbVars, nReq>>

\* lines 248-285: the batch of the new charge commits and the QR is returned,
\* or the commit throws into the outer catch
PixCommit(s) ==
  /\ slot[s].kind = "pix" /\ slot[s].pc = "commit"
  /\ LET r == slot[s]
     IN \/ /\ BatchCommit(r.rid, r.orderId, r.mpData, FALSE)
           /\ slot' = [slot EXCEPT ![s] =
                Respond(Logged(r, "commit"),
                        [ResNil EXCEPT !.code = 200,
                                       !.payment_id = Or(r.mpData.payment_id, Null),
                                       !.status = r.mpData.status,
                                       !.qr_code = IF r.p.qr_code = Null THEN Empty ELSE r.p.qr_code,
                                       !.qr_code_base64 = IF r.p.qr_code = Null THEN Empty ELSE r.p.qr_code,
                                       !.reused = "false"])]
        \/ /\ slot' = [slot EXCEPT ![s] =
                Respond(Logged(r, "commitFail"), [ResNil EXCEPT !.code = 500])]
           /\ UNCHANGED dbVars
  /\ UNCHANGED <<now, WEBHOOK_SECRET, payments, nReq>>

\* ------------------------------------------- POST /webhook/mercadopago
SecretInputs == {<<"s">>, <<"s", " ">>, <<"x">>}

\* <<body.data.id, body.id, query["data.id"]>>
WebhookIdInputs ==
  {<<Null, Null, Null>>, <<Digits(1), Digits(2), Null>>,
   <<<<" ">> \o Digits(1), Null, Null>>, <<Null, Digits(2), Null>>,
   <<Null, Null, Digits(1)>>}

\* what else a notification may claim in its body
ExtraInputs == {[status |-> Null, rid |-> Null, orderId |-> Null],
                [status |-> APPROVED, rid |-> <<"b">>, orderId |-> <<"o">>]}

\* SecretRejected turning away only a request without a secret
SecretRejected_OnlyMissing(configured, sec) ==
  Truthy(configured) /\ ~Truthy(safeStr(sec))

\* lines 294-299: is the request turned away for its secret
SecretRejected(configured, sec) ==
  Truthy(configured) /\ safeStr(sec) # configured

\* WebhookAck answering as the catch of POST /pix does (line 281)
WebhookAck_ServerError == ErrCode(0)

\* lines 392 and 396: the status of every answer past the secret check
WebhookAck == 200

\* lines 294-306: the secret check, the payment id, paymentApi.get is issued
WebhookStartWith(s, secrets, idInputs, extras) ==
  /\ Free(s)
  /\ nReq < MaxReq
  /\ \E sec \in secrets, ids \in idInputs, extra \in extras :
       LET paymentId == safeStr(Or(Or(Or(ids[1], ids[2]), ids[3]), Empty))
           r == [SlotNil EXCEPT !.kind = "webhook", !.secret = sec, !.extra = extra,
                                !.paymentId = paymentId]
       IN slot' = [slot EXCEPT ![s] =
            IF SecretRejected(WEBHOOK_SECRET, sec)
            THEN Respond(r, [ResNil EXCEPT !.code = 401])
            ELSE IF ~Truthy(paymentId)
            THEN Respond(r, [ResNil EXCEPT !.code = WebhookAck, !.ignored = "no payment id"])
            ELSE [r EXCEPT !.pc = "get"]]
  /\ nReq' = nReq + 1
  /\ UNCHANGED <<now, WEBHOOK_SECRET, payments, dbVars>>

NoExtra == [status |-> Null, rid |-> Null, orderId |-> Null]

\* any request to the endpoint
WebhookStart(s) == WebhookStartWith(s, SecretInputs, WebhookIdInputs, {NoExtra})

\* a request with the configured secret, whatever its body says
WebhookAccepted(s) ==
  WebhookStartWith(s, {WEBHOOK_SECRET}, WebhookIdInputs, ExtraInputs)

\* a notification as the processor sends it: the configured secret in the
\* URL, the payment id in body.data.id
WebhookNotify(s) ==
  WebhookStartWith(s, {WEBHOOK_SECRET}, {<<Digits(i), Null, Null>> : i \in PayIds},
                   {NoExtra})

\* WebhookMpData taking every notification to be one of a payment made
WebhookMpData_AssumeApproved(r, p, rid, orderId) ==
  [payment_id |-> safeStr(Or(IdStr(p), r.paymentId)),
   status |-> APPROVED,
   status_detail |-> StatusDetailOf(APPROVED),
   rid |-> rid, orderId |-> orderId,
   date_of_expiration |-> Or(safeStr(p.date_of_expiration), Null)]

\* lines 326-334: the mp record the webhook batch sets
WebhookMpData(r, p, rid, orderId) ==
  [payment_id |-> safeStr(Or(IdStr(p), r.paymentId)),
   status |-> safeStr(p.status),
   status_detail |-> DetailOrNull(p.status_detail),
   rid |-> rid, orderId |-> orderId,
   date_of_expiration |-> Or(safeStr(p.date_of_expiration), Null)]

\* WebhookRid preferring a rid the notification itself carries
WebhookRid_FromBody(r, p) == safeStr(Or(r.extra.rid, p.metadata_rid))

\* lines 312 and 315: the order a notification is about, from the
\* processor's record (r is the request, p the record)
WebhookRid(r, p) == safeStr(p.metadata_rid)
WebhookOrderId(r, p) == safeStr(Or(p.metadata_orderId, p.external_reference))

\* WebhookIgnored as before the multi-restaurant revision: the order id alone
WebhookIgnored_OrderOnly(rid, orderId) == ~Truthy(orderId)

\* line 317
WebhookIgnored(rid, orderId) == ~Truthy(rid) \/ ~Truthy(orderId)

\* lines 306-388: the processor's record arrives (or get throws), the order is
\* resolved from it and the batch is queued
WebhookGet(s) ==
  /\ slot[s].kind = "webhook" /\ slot[s].pc = "get"
  /\ LET r == slot[s]
     IN \/ slot' = [slot EXCEPT ![s] =
               Respond(Logged(r, "getFail"), [ResNil EXCEPT !.code = WebhookAck])]
        \/ /\ HasPayment(r.paymentId)
           /\ LET p       == PaymentOf(r.paymentId)
                  status  == safeStr(p.status)
                  rid     == WebhookRid(r, p)
                  orderId == WebhookOrderId(r, p)
                  r1 == [Logged(r, "get") EXCEPT !.p = p, !.rid = rid, !.orderId = orderId,
                                                 !.fetchNo = LastFetch + 1]
              IN slot' = [slot EXCEPT ![s] =
                   IF WebhookIgnored(rid, orderId)
                   THEN Respond(r1, [ResNil EXCEPT !.code = WebhookAck,
                                                   !.ignored = "missing rid/orderId"])
                   ELSE [r1 EXCEPT !.pc = "commit",
                                   !.mpData = WebhookMpData(r, p, rid, orderId),
                                   !.promote = (status = APPROVED)]]
  /\ UNCHANGED <<now, WEBHOOK_SECRET, payments, dbVars, nReq>>

\* lines 390-397: batch.commit() resolves or throws; both end in HTTP 200
WebhookCommit(s) ==
  /\ slot[s].kind = "webhook" /\ slot[s].pc = "commit"
  /\ LET r == slot[s]
     IN \/ /\ BatchCommit(r.rid, r.orderId, r.mpData, r.promote)
           /\ slot' = [slot EXCEPT ![s] =
                Respond(Logged(r, "commit"), [ResNil EXCEPT !.code = WebhookAck])]
        \/ /\ slot' = [slot EXCEPT ![s] =
                Respond(Logged(r, "commitFail"), [ResNil EXCEPT !.code = WebhookAck])]
           /\ UNCHANGED dbVars
  /\ UNCHANGED <<now, WEBHOOK_SECRET, payments, nReq>>

\* ------------------------------------------------------------ environment
Tick ==
  /\ now < MaxNow
  /\ now' = now + 1
  /\ UNCHANGED <<WEBHOOK_SECRET, payments, dbVars, slot, nReq>>

\* the customer pays a pending charge before it expires
MPApprove(i) ==
  /\ payments[i].id = i /\ payments[i].status = PENDING
  /\ ~Truthy(payments[i].date_of_expiration)
       \/ now <= getTime(payments[i].date_of_expiration)
  /\ payments' = [payments EXCEPT ![i].status = APPROVED,
                                  ![i].status_detail = StatusDetailOf(APPROVED)]
  /\ UNCHANGED <<now, WEBHOOK_SECRET, dbVars, slot, nReq>>

\* the processor cancels a pending charge some time after its expiration
MPExpire(i) ==
  /\ payments[i].id = i /\ payments[i].status = PENDING
  /\ Truthy(payments[i].date_of_expiration)
  /\ now >= getTime(payments[i].date_of_expiration)
  /\ payments' = [payments EXCEPT ![i].status = CANCELLED,
                                  ![i].status_detail = StatusDetailOf(CANCELLED)]
  /\ UNCHANGED <<now, WEBHOOK_SECRET, dbVars, slot, nReq>>

\* <<metadata.rid, metadata.orderId, external_reference>> of payments that
\* other clients of the same processor account made
ForeignMeta == {<<Null, Null, <<"o">> >>, <<<<"a">>, Null, Null>>,
                <<<<" ", "b">>, Null, <<"o", " ">> >>,
                <<<<"a">>, <<"o">>, Null>>}

MPForeignWith(metas) ==
  /\ NumPayments < MaxPay
  /\ \E m \in metas :
       LET i == NumPayments + 1
       IN payments' = [payments EXCEPT ![i] =
            [PayNil EXCEPT !.id = i, !.status = PENDING,
                           !.status_detail = StatusDetailOf(PENDING),
                           !.metadata_rid = m[1], !.metadata_orderId = m[2],
                           !.external_reference = m[3],
                           !.transaction_amount = 1000,
                           !.key = <<"foreign">> \o Digits(i)]]
  /\ UNCHANGED <<now, WEBHOOK_SECRET, dbVars, slot, nReq>>

\* a payment of an order of this service that another instance of it made
MPForeign == MPForeignWith({<<<<"a">>, <<"o">>, Null>>})

\* any payment of the account
MPForeignAny == MPForeignWith(ForeignMeta)

\* ------------------------------------------------------------ specification
\* POST /pix requests and the processor's notifications, one request at a
\* time, the processor and the clock moving between the handler's steps
Next ==
  \/ PixStart(1)
  \/ PixRead(1)
  \/ PixGet(1)
  \/ PixReuseCommit(1)
  \/ PixCreate(1)
  \/ PixCommit(1)
  \/ WebhookNotify(1)
  \/ WebhookGet(1)
  \/ WebhookCommit(1)
  \/ \E i \in PayIds : MPApprove(i)
  \/ \E i \in PayIds : MPExpire(i)
  \/ Tick

Spec == Init /\ [][Next]_vars

\* any requests to the webhook endpoint, with or without a configured
\* secret, about any payments of the account
InitWebhook == InitWith({Empty, <<"s">>})

NextWebhook ==
  \/ WebhookStart(1)
  \/ WebhookGet(1)
  \/ WebhookCommit(1)
  \/ MPForeignAny
  \/ \E i \in PayIds : MPApprove(i)

SpecWebhook == InitWebhook /\ [][NextWebhook]_vars

\* two accepted notifications in flight together, whatever their bodies say
NextTwin ==
  \/ \E s \in Slots : WebhookAccepted(s)
  \/ \E s \in Slots : WebhookGet(s)
  \/ \E s \in Slots : WebhookCommit(s)
  \/ MPForeign
  \/ \E i \in PayIds : MPApprove(i)

SpecTwin == Init /\ [][NextTwin]_vars

\* the key derivation alone: two validated requests, of any restaurant,
\* order and amount, each reaching line 186 at some time
KeyRids     == {<<"a">>, <<"a", "|", "b">>}
KeyOrderIds == {<<"o">>, <<"b", "|", "o">>}
KeyTotals   == {[finite |-> TRUE, mills |-> 1000], [finite |-> TRUE, mills |-> 1004],
                [finite |-> TRUE, mills |-> 2000]}

InitKey ==
  /\ now = 0
  /\ WEBHOOK_SECRET = <<"s">>
  /\ payments = [i \in PayIds |-> PayNil]
  /\ priv = [o \in Orders |-> DocNil]
  /\ pub  = [o \in Orders |-> DocNil]
  /\ legacyPriv = [o \in OrderIds |-> DocNil]
  /\ legacyPub  = [o \in OrderIds |-> DocNil]
  /\ slot \in [Slots -> {[SlotNil EXCEPT !.kind = "pix", !.pc = "derive", !.rid = rid,
                                         !.orderId = orderId, !.total = total] :
                            rid \in KeyRids, orderId \in KeyOrderIds, total \in KeyTotals}]
  /\ nReq = Cardinality(Slots)

\* lines 186-192 of a request that goes on to create
PixDerive(s) ==
  /\ slot[s].kind = "pix" /\ slot[s].pc = "derive"
  /\ slot' = [slot EXCEPT ![s] = ToCreate(@, now)]
  /\ UNCHANGED <<now, WEBHOOK_SECRET, payments, dbVars, nReq>>

NextKey ==
  \/ \E s \in Slots : PixDerive(s)
  \/ Tick

SpecKey == InitKey /\ [][NextKey]_vars

\* the same POST /pix request retried and run twice at once, every awaited
\* call a step of its own
NextRetry ==
  \/ \E s \in Slots : PixRetry(s)
  \/ \E s \in Slots : PixRead(s)
  \/ \E s \in Slots : PixGet(s)
  \/ \E s \in Slots : PixReuseCommit(s)
  \/ \E s \in Slots : PixCreate(s)
  \/ \E s \in Slots : PixCommit(s)
  \/ \E i \in PayIds : MPApprove(i)
  \/ \E i \in PayIds : MPExpire(i)
  \/ Tick

SpecRetry == Init /\ [][NextRetry]_vars

\* an order with two charges: the first POST /pix (total 2.00) made payment
\* 1 and its batch commit failed, the second (total 1.00) made payment 2
\* and persisted it
FirstCharge ==
  ToCreate([SlotNil EXCEPT !.kind = "pix", !.rid = <<"a">>, !.orderId = <<"o">>,
                           !.total = [finite |-> TRUE, mills |-> 2000]], 0)
SecondCharge ==
  AfterCreate(ToCreate([SlotNil EXCEPT !.kind = "pix", !.rid = <<"a">>,
                                       !.orderId = <<"o">>,
                                       !.total = [finite |-> TRUE, mills |-> 1000]], 0),
              NewPayment(2, PENDING,
                ToCreate([SlotNil EXCEPT !.kind = "pix", !.rid = <<"a">>,
                                         !.orderId = <<"o">>,
                                         !.total = [finite |-> TRUE, mills |-> 1000]], 0)))

InitLate ==
  /\ now = 0
  /\ WEBHOOK_SECRET = <<"s">>
  /\ payments = [i \in PayIds |->
                   IF i = 1 THEN NewPayment(1, PENDING, FirstCharge)
                   ELSE IF i = 2 THEN SecondCharge.p
                   ELSE PayNil]
  /\ priv = [o \in Orders |-> IF o \in Placed
                               THEN MergeSet(DocNew, SecondCharge.mpData, FALSE, 0)
                               ELSE DocNil]
  /\ pub  = [o \in Orders |-> IF o \in Placed
                               THEN MergeSet(DocNew, SecondCharge.mpData, FALSE, 0)
                               ELSE DocNil]
  /\ legacyPriv = [o \in OrderIds |-> MergeSet(DocNil, SecondCharge.mpData, FALSE, 0)]
  /\ legacyPub  = [o \in OrderIds |-> MergeSet(DocNil, SecondCharge.mpData, FALSE, 0)]
  /\ slot = [s \in Slots |-> SlotNil]
  /\ nReq = 0

\* what follows: the customer pays, the processor notifies in any order, the
\* checkout page asks for the charge again
NextLate ==
  \/ PixRetry(1)
  \/ PixRead(1)
  \/ PixGet(1)
  \/ PixReuseCommit(1)
  \/ PixCreate(1)
  \/ PixCommit(1)
  \/ WebhookNotify(1)
  \/ WebhookGet(1)
  \/ WebhookCommit(1)
  \/ \E i \in PayIds : MPApprove(i)
  \/ \E i \in PayIds : MPExpire(i)
  \/ Tick

SpecLate == InitLate /\ [][NextLate]_vars

\* POST /pix requests of one order, each sent after the answer to the one
\* before
NextFollow ==
  \/ PixFollow(1)
  \/ PixRead(1)
  \/ PixGet(1)
  \/ PixReuseCommit(1)
  \/ PixCreate(1)
  \/ PixCommit(1)
  \/ \E i \in PayIds : MPApprove(i)
  \/ \E i \in PayIds : MPExpire(i)
  \/ Tick

SpecFollow == Init /\ [][NextFollow]_vars

\* two requests at a time, at one time of the clock, for the charge of an
\* order that has a persisted pending payment, the requests differing in
\* their total
NextPair ==
  \/ \E s \in Slots : PixAnyTotal(s)
  \/ \E s \in Slots : PixRead(s)
  \/ \E s \in Slots : PixGet(s)
  \/ \E s \in Slots : PixReuseCommit(s)
  \/ \E s \in Slots : PixCreate(s)
  \/ \E s \in Slots : PixCommit(s)

SpecPair == InitLate /\ [][NextPair]_vars

\* ------------------------------------------------------------------ claims
Has(log, ev) == \E i \in 1..Len(log) : log[i] = ev
CalledCreate(r) == Has(r.log, "create") \/ Has(r.log, "createFail")
Wrote(r) == Has(r.log, "commit")
Done(r) == r.pc = "done"

\* the lookup of the order's payment answered, in this request
Looked(r) == r.kind = "pix" /\ Has(r.log, "get")

\* C1: a POST /pix request whose order holds a payment id that the processor
\* reports as approved is answered 409, and the handler neither calls create
\* nor writes a document
C1_ApprovedConflict ==
  \A s \in Slots :
    LET r == slot[s]
    IN (Looked(r) /\ safeStr(r.existing.status) = APPROVED)
         => /\ Done(r) /\ r.res.code = 409
            /\ ~CalledCreate(r)
            /\ ~Wrote(r)

C1_Witness ==
  \E s \in Slots :
    LET r == slot[s]
    IN /\ Looked(r) /\ safeStr(r.existing.status) = APPROVED
       /\ Done(r) /\ r.res.code = 409
       /\ priv[<<r.rid, r.orderId>>].mp.payment_id = r.paymentId

\* C2: a POST /pix request whose order holds a payment that the processor
\* reports as pending with an expiration in the future never calls create
\* and answers with that payment id and reused: true, on every path
C2_ReuseNeverCreates ==
  \A s \in Slots :
    LET r == slot[s]
    IN (/\ Looked(r)
        /\ safeStr(r.existing.status) = PENDING
        /\ isFuture(safeStr(r.existing.date_of_expiration), r.tGet))
         => /\ ~CalledCreate(r)
            /\ Done(r) => (r.res.payment_id = r.paymentId /\ r.res.reused = "true")

\* the processor's record behind the answer of a finished POST /pix
Answered(r) == IF r.res.reused = "true" THEN r.existing ELSE r.p

\* C3: a POST /pix response carries a QR payload only with HTTP 200 and
\* status pending, the status the processor returned in this request for the
\* payment id in the response
C3_QrOnlyWhenPending ==
  \A s \in Slots :
    LET r == slot[s]
    IN (r.kind = "pix" /\ Done(r) /\ (r.res.qr_code # Null \/ r.res.qr_code_base64 # Null))
         => /\ r.res.code = 200
            /\ r.res.status = PENDING
            /\ safeStr(Answered(r).status) = PENDING
            /\ r.res.payment_id = IdStr(Answered(r))

C3_Witness ==
  \E s \in Slots :
    LET r == slot[s]
    IN /\ r.kind = "pix" /\ Done(r) /\ r.res.code = 200
       /\ r.res.reused = "true"
       /\ Truthy(r.res.qr_code)

\* C4: when create returns a payment that is not pending, POST /pix answers
\* 400 with the status, status_detail and payment id, and writes no document
C4_NonPendingCreate ==
  \A s \in Slots :
    LET r == slot[s]
    IN (r.kind = "pix" /\ Has(r.log, "create") /\ safeStr(r.p.status) # PENDING)
         => /\ Done(r) /\ r.res.code = 400
            /\ r.res.status = safeStr(r.p.status)
            /\ r.res.status_detail = DetailOrNull(r.p.status_detail)
            /\ r.res.payment_id = IdStr(r.p)
            /\ r.res.qr_code = Null
            /\ ~Wrote(r)

C4_Witness ==
  \E s \in Slots :
    LET r == slot[s]
    IN /\ r.kind = "pix" /\ Has(r.log, "create") /\ safeStr(r.p.status) = REJECTED
       /\ Done(r) /\ r.res.code = 400

\* the payments of an order that are pending and unexpired
Live(rid, orderId) ==
  {i \in PayIds : /\ payments[i].id = i
                  /\ payments[i].status = PENDING
                  /\ isFuture(payments[i].date_of_expiration, now)
                  /\ safeStr(payments[i].metadata_rid) = rid
                  /\ safeStr(payments[i].metadata_orderId) = orderId}

\* C5: every order has at most one payment that is pending and unexpired
C5_OneLivePaymentPerOrder ==
  \A o \in Orders : Cardinality(Live(o[1], o[2])) <= 1

\* the webhook handler has the processor's record of the notified payment
Fetched(r) == r.kind = "webhook" /\ Has(r.log, "get")

\* C6: what the webhook handler writes, and to which order, depends only on
\* the notified payment id and the processor's record of it, whatever else
\* the two notifications carry; and no write comes before the get
C6_WebhookTrustsProcessorOnly ==
  /\ \A s, q \in Slots :
       LET r == slot[s]
           u == slot[q]
       IN (Fetched(r) /\ Fetched(u) /\ r.paymentId = u.paymentId /\ r.p = u.p)
            => /\ r.rid = u.rid /\ r.orderId = u.orderId
               /\ r.mpData = u.mpData /\ r.promote = u.promote
  /\ \A s \in Slots :
       LET r == slot[s]
       IN (r.kind = "webhook" /\ Wrote(r))
            => \E i, j \in 1..Len(r.log) : i < j /\ r.log[i] = "get" /\ r.log[j] = "commit"

C6_Witness ==
  \E s, q \in Slots :
    LET r == slot[s]
        u == slot[q]
    IN /\ Fetched(r) /\ Fetched(u) /\ r.paymentId = u.paymentId /\ r.p = u.p
       /\ r.extra # u.extra
       /\ Wrote(r) /\ Wrote(u)

\* C7: when the webhook handler completes its batch for a payment the
\* processor reports as approved, the private and the public document of the
\* order have status em_preparo, a paidAt and an mp record with status approved
C7_ApprovedPromotes ==
  \A s \in Slots :
    LET r == slot[s]
    IN (Fetched(r) /\ safeStr(r.p.status) = APPROVED /\ Done(r) /\ Wrote(r))
         => \A d \in {priv[<<r.rid, r.orderId>>], pub[<<r.rid, r.orderId>>]} :
               /\ d.status = EM_PREPARO
               /\ d.paidAt # NoTime
               /\ d.mp.status = APPROVED

C7_Witness ==
  \E s \in Slots :
    LET r == slot[s]
    IN /\ Fetched(r) /\ safeStr(r.p.status) = APPROVED /\ Done(r) /\ Wrote(r)
       /\ pub[<<r.rid, r.orderId>>].status = EM_PREPARO

NoRid(p) == ~Truthy(safeStr(p.metadata_rid))
NoOrderId(p) == ~Truthy(safeStr(p.metadata_orderId)) /\ ~Truthy(safeStr(p.external_reference))

\* C8: when the processor's record has no rid, or neither a metadata order
\* id nor an external reference, the webhook handler answers 200 with an
\* "ignored" field and writes nothing
C8_UnresolvedIgnored ==
  \A s \in Slots :
    LET r == slot[s]
    IN (Fetched(r) /\ (NoRid(r.p) \/ NoOrderId(r.p)))
         => /\ Done(r) /\ r.res.code = 200
            /\ r.res.ignored = "missing rid/orderId"
            /\ ~Wrote(r)

C8_Witness ==
  \E s \in Slots :
    LET r == slot[s]
    IN /\ Fetched(r) /\ NoRid(r.p) /\ ~NoOrderId(r.p)
       /\ Done(r) /\ r.res.ignored = "missing rid/orderId"

\* C9 as stated: every webhook request is answered 200, except exactly when
\* a secret is configured and the request's secret parameter differs from it,
\* and then 401
C9_AckUnlessSecretDiffers ==
  \A s \in Slots :
    LET r == slot[s]
    IN (r.kind = "webhook" /\ Done(r))
         => IF Truthy(WEBHOOK_SECRET) /\ r.secret # WEBHOOK_SECRET
            THEN r.res.code = 401
            ELSE r.res.code = 200

\* C9, amended: every webhook request is answered 200, except exactly when
\* a secret is configured and the request's secret parameter, trimmed of
\* surrounding whitespace, differs from it, and then 401
C9_AckUnlessTrimmedSecretDiffers ==
  \A s \in Slots :
    LET r == slot[s]
    IN (r.kind = "webhook" /\ Done(r))
         => IF Truthy(WEBHOOK_SECRET) /\ safeStr(r.secret) # WEBHOOK_SECRET
            THEN r.res.code = 401
            ELSE r.res.code = 200

C9_Witness ==
  \E s \in Slots :
    LET r == slot[s]
    IN /\ r.kind = "webhook" /\ Done(r)
       /\ Has(r.log, "commitFail")
       /\ r.res.code = 200

Derived(r) == r.kind = "pix" /\ r.tKey # NoTime
CentsOf(r) == totalCentsOf(r.total.mills)
BucketOf(r) == r.tKey \div ThirtyMin

\* C11: two charge-creation attempts with equal rid, orderId and amount in
\* cents, made in the same 30-minute bucket, pass the same idempotency key
C11_SameBucketSameKey ==
  \A s, q \in Slots :
    LET r == slot[s]
        u == slot[q]
    IN (/\ Derived(r) /\ Derived(u)
        /\ r.rid = u.rid /\ r.orderId = u.orderId /\ CentsOf(r) = CentsOf(u)
        /\ BucketOf(r) = BucketOf(u))
         => r.idempotencyKey = u.idempotencyKey

C11_Witness ==
  \E s, q \in Slots :
    LET r == slot[s]
        u == slot[q]
    IN /\ Derived(r) /\ Derived(u)
       /\ r.rid = u.rid /\ r.orderId = u.orderId
       /\ r.total # u.total /\ CentsOf(r) = CentsOf(u)
       /\ r.tKey # u.tKey /\ BucketOf(r) = BucketOf(u)
       /\ r.idempotencyKey = u.idempotencyKey

\* C12: two charge-creation attempts with equal rid, orderId and amount in
\* cents, made in different 30-minute buckets, pass different keys
C12_OtherBucketOtherKey ==
  \A s, q \in Slots :
    LET r == slot[s]
        u == slot[q]
    IN (/\ Derived(r) /\ Derived(u)
        /\ r.rid = u.rid /\ r.orderId = u.orderId /\ CentsOf(r) = CentsOf(u)
        /\ BucketOf(r) # BucketOf(u))
         => r.idempotencyKey # u.idempotencyKey

C12_Witness ==
  \E s, q \in Slots :
    LET r == slot[s]
        u == slot[q]
    IN /\ Derived(r) /\ Derived(u)
       /\ r.rid = u.rid /\ r.orderId = u.orderId /\ CentsOf(r) = CentsOf(u)
       /\ BucketOf(r) # BucketOf(u)
       /\ r.idempotencyKey # u.idempotencyKey

\* C13: two charge-creation attempts that differ in rid, orderId, amount in
\* cents or bucket pass different keys, whatever the strings contain
C13_KeyInjective ==
  \A s, q \in Slots :
    LET r == slot[s]
        u == slot[q]
    IN (/\ Derived(r) /\ Derived(u)
        /\ <<r.rid, r.orderId, CentsOf(r), BucketOf(r)>>
             # <<u.rid, u.orderId, CentsOf(u), BucketOf(u)>>)
         => r.idempotencyKey # u.idempotencyKey

\* the payments the processor holds for an order
OrderPayments(rid, orderId) ==
  {i \in PayIds : /\ payments[i].id = i
                  /\ safeStr(payments[i].metadata_rid) = rid
                  /\ safeStr(payments[i].metadata_orderId) = orderId}

\* the processor answered the request's create
Created(r) == r.kind = "pix" /\ Has(r.log, "create")

\* C14 as stated: two finished POST /pix requests with the same rid, orderId
\* and total (here: both answered 200) leave exactly one payment of the order
\* at the processor, both return its id and the persisted mp.payment_id is it
C14_RetriesShareOnePayment ==
  \A s, q \in Slots :
    LET r == slot[s]
        u == slot[q]
    IN (/\ s # q /\ r.kind = "pix" /\ u.kind = "pix"
        /\ Done(r) /\ Done(u) /\ r.res.code = 200 /\ u.res.code = 200
        /\ r.rid = u.rid /\ r.orderId = u.orderId /\ r.total = u.total)
         => /\ Cardinality(OrderPayments(r.rid, r.orderId)) = 1
            /\ r.res.payment_id = u.res.payment_id
            /\ priv[<<r.rid, r.orderId>>].mp.payment_id = r.res.payment_id

\* C14, amended: two POST /pix requests with the same rid, orderId and total
\* that derive their idempotency keys in the same 30-minute bucket get the
\* same payment from create, in every interleaving and whatever call fails;
\* each that answers with a payment id answers with the id of that payment,
\* and once both have committed, the persisted mp.payment_id is that id
C14_SameBucketSharesOnePayment ==
  \A s, q \in Slots :
    LET r == slot[s]
        u == slot[q]
    IN (/\ s # q /\ Created(r) /\ Created(u)
        /\ r.rid = u.rid /\ r.orderId = u.orderId /\ r.total = u.total
        /\ BucketOf(r) = BucketOf(u))
         => /\ r.p.id = u.p.id
            /\ (Done(r) /\ r.res.payment_id # Null) => r.res.payment_id = Digits(u.p.id)
            /\ (Wrote(r) /\ Wrote(u))
                  => priv[<<r.rid, r.orderId>>].mp.payment_id = Digits(r.p.id)

C14_Witness ==
  \E s, q \in Slots :
    LET r == slot[s]
        u == slot[q]
    IN /\ s # q
       /\ r.log = <<"read", "create", "commit">>
       /\ u.log = <<"read", "create", "commit">>
       /\ r.tKey # u.tKey /\ BucketOf(r) = BucketOf(u)
       /\ r.res.code = 200 /\ u.res.code = 200
       /\ r.res.payment_id = u.res.payment_id
       /\ priv[<<r.rid, r.orderId>>].mp.payment_id = r.res.payment_id

\* the calls of paymentApi.create the request has had answered
NumCreate(r) ==
  Cardinality({i \in 1..Len(r.log) : r.log[i] \in {"create", "createFail"}})

\* what a request that went on to create answers, from create's result and
\* the commit that follows it
CreateOutcome(r) ==
  /\ NumCreate(r) = 1
  /\ IF Has(r.log, "createFail") THEN r.res.code \in {ErrCode(st) : st \in ErrStatuses}
     ELSE IF safeStr(r.p.status) # PENDING
     THEN r.res.code = 400 /\ r.res.payment_id = IdStr(r.p)
     ELSE IF r.log[Len(r.log)] = "commitFail" THEN r.res.code = 500
     ELSE /\ r.res.code = 200 /\ r.res.reused = "false"
          /\ r.res.payment_id = IdStr(r.p)

\* C15: when the order has a persisted payment id and paymentApi.get for it
\* throws, POST /pix goes on to call create, and its answer is the one
\* create's result gives
C15_GetFailureFallsBack ==
  \A s \in Slots :
    LET r == slot[s]
    IN (r.kind = "pix" /\ Has(r.log, "getFail"))
         => /\ Truthy(r.paymentId)
            /\ r.pc \in {"create", "commit", "done"}
            /\ r.pc # "create" => NumCreate(r) = 1
            /\ Done(r) => CreateOutcome(r)

C15_Witness ==
  \E s \in Slots :
    LET r == slot[s]
    IN /\ r.kind = "pix" /\ r.log = <<"read", "getFail", "create", "commit">>
       /\ Done(r) /\ r.res.code = 200 /\ r.res.reused = "false"

\* C16: when the read of the order document fails, POST /pix still calls
\* create and does not end the request with an error
C16_ReadFailureFallsBack ==
  \A s \in Slots :
    LET r == slot[s]
    IN (r.kind = "pix" /\ Has(r.log, "readFail"))
         => /\ r.pc \in {"create", "commit", "done"}
            /\ Done(r) => CalledCreate(r)

\* the lookup answered with a payment that is neither approved nor pending
\* and unexpired
NotReusable(r) ==
  /\ Looked(r)
  /\ safeStr(r.existing.status) # APPROVED
  /\ ~(/\ safeStr(r.existing.status) = PENDING
       /\ isFuture(safeStr(r.existing.date_of_expiration), r.tGet))

\* C17: when the processor reports the order's persisted payment neither
\* approved nor pending and unexpired, POST /pix calls create exactly once in
\* that request and does not answer reused: true
C17_NotReusableCreatesOnce ==
  \A s \in Slots :
    LET r == slot[s]
    IN NotReusable(r)
         => /\ r.pc \in {"create", "commit", "done"}
            /\ NumCreate(r) = (IF r.pc = "create" THEN 0 ELSE 1)
            /\ r.res.reused # "true"

C17_Witness ==
  \E s \in Slots :
    LET r == slot[s]
    IN /\ NotReusable(r) /\ safeStr(r.existing.status) = PENDING
       /\ Done(r) /\ NumCreate(r) = 1
       /\ r.res.code = 200 /\ r.res.reused = "false"
       /\ r.res.payment_id # r.paymentId

\* this step is the batch commit of the webhook handler in slot s
WebhookWrites(s) ==
  /\ slot[s].kind = "webhook" /\ slot[s].pc = "commit"
  /\ Wrote(slot'[s])

\* the document is as a processing of the notification of r leaves it
ProcessedOnce(doc, r) ==
  /\ doc.mp = r.mpData
  /\ r.promote => (doc.status = EM_PREPARO /\ doc.paidAt # NoTime)

\* C18: a webhook commit that finds the order's documents as an earlier
\* processing of the same notification (same record of the payment) left
\* them, leaves their mp record, status and paidAt as they are
C18_RedeliveryChangesNothing ==
  [][\A s \in Slots :
       LET r == slot[s]
           o == <<r.rid, r.orderId>>
       IN (/\ WebhookWrites(s)
           /\ ProcessedOnce(priv[o], r) /\ ProcessedOnce(pub[o], r))
            => (priv'[o] = priv[o] /\ pub'[o] = pub[o])]_vars

\* C19: once the webhook handlers of an order's payment have all completed
\* their commits, the persisted mp.status is the status the most recent of
\* their fetches returned
C19_LatestFetchWins ==
  (\A s \in Slots : slot[s].pc \in {"idle", "done"})
    => \A s, q \in Slots :
         LET r == slot[s]
             u == slot[q]
             o == <<r.rid, r.orderId>>
         IN (/\ Fetched(r) /\ Fetched(u) /\ Wrote(r) /\ Wrote(u)
             /\ r.rid = u.rid /\ r.orderId = u.orderId
             /\ r.mpData.payment_id = u.mpData.payment_id
             /\ r.fetchNo > u.fetchNo)
              => /\ priv[o].mp.payment_id = r.mpData.payment_id
                 /\ priv[o].mp.status = safeStr(r.p.status)

\* C20: a POST /pix request whose total is not a finite number greater than
\* zero, or whose orderId or rid is empty after trimming, is answered 400
\* without a database read or write and without a processor call
C20_InvalidRejected ==
  \A s \in Slots :
    LET r == slot[s]
    IN (/\ r.kind = "pix"
        /\ \/ ~r.total.finite \/ r.total.mills <= 0
           \/ r.orderId = Empty
           \/ r.rid = Empty)
         => /\ Done(r) /\ r.res.code = 400
            /\ r.log = <<>>
            /\ r.res.payment_id = Null /\ r.res.qr_code = Null

C20_Witness ==
  \E s \in Slots :
    LET r == slot[s]
    IN /\ r.kind = "pix" /\ r.total.finite /\ r.total.mills > 0
       /\ r.orderId # Empty /\ r.rid = Empty
       /\ Done(r) /\ r.res.code = 400
       /\ priv[<<<<"a">>, r.orderId>>].mp.payment_id # Null

\* C21: when paymentApi.create throws, POST /pix answers with the status the
\* error carries, or 500 when it carries none; the request writes no
\* document and calls create once
C21_CreateErrorStatus ==
  \A s \in Slots :
    LET r == slot[s]
    IN (r.kind = "pix" /\ Has(r.log, "createFail"))
         => /\ Done(r)
            /\ r.res.code = (IF r.errStatus # 0 THEN r.errStatus ELSE 500)
            /\ ~Wrote(r)
            /\ NumCreate(r) = 1

C21_Witness ==
  \E s \in Slots :
    LET r == slot[s]
    IN /\ r.kind = "pix" /\ Has(r.log, "createFail")
       /\ r.errStatus = 503 /\ r.res.code = 503
       /\ Has(r.log, "getFail")
       /\ priv[<<r.rid, r.orderId>>].mp.payment_id = r.paymentId

\* the processor's record a handler built its mp record from
Source(r) ==
  IF r.kind = "pix" /\ ~Has(r.log, "create") THEN r.existing ELSE r.p

\* C22: the mp record a handler of POST /pix or of the webhook has queued or
\* committed carries the status and status_detail the processor returned in
\* that request for the payment whose id the record holds
C22_StatusFromProcessor ==
  \A s \in Slots :
    LET r == slot[s]
        o == <<r.rid, r.orderId>>
    IN (r.pc \in {"reuseCommit", "commit"} \/ Wrote(r))
         => /\ r.mpData.payment_id = IdStr(Source(r))
            /\ r.mpData.status = safeStr(Source(r).status)
            /\ r.mpData.status_detail = DetailOrNull(Source(r).status_detail)
            /\ Wrote(r) => priv[o].mp = r.mpData

C22_Witness ==
  \E s \in Slots :
    LET r == slot[s]
        o == <<r.rid, r.orderId>>
    IN /\ r.kind = "webhook" /\ Wrote(r)
       /\ safeStr(r.p.status) = CANCELLED
       /\ priv[o].mp.status = CANCELLED
       /\ priv[o].mp.payment_id = IdStr(r.p)

\* this step changes status or paidAt of the document
Promoted(doc, docAfter) ==
  docAfter.status # doc.status \/ docAfter.paidAt # doc.paidAt

\* this step is the commit of a webhook handler that fetched an approved
\* payment of the order
ApprovedCommit(rid, orderId) ==
  \E s \in Slots :
    /\ WebhookWrites(s)
    /\ safeStr(slot[s].p.status) = APPROVED
    /\ slot[s].rid = rid /\ slot[s].orderId = orderId

\* C23: status and paidAt of an order document change only in the commit of
\* a webhook handler whose fetch returned approved, and then status becomes
\* em_preparo; POST /pix never changes them; the fields other than mp,
\* status and paidAt are never changed
C23_Frame ==
  [][/\ \A o \in Orders :
          \A d \in {<<priv[o], priv'[o]>>, <<pub[o], pub'[o]>>} :
            /\ d[2].items = d[1].items
            /\ Promoted(d[1], d[2])
                 => (ApprovedCommit(o[1], o[2]) /\ d[2].status = EM_PREPARO)
     /\ \A o \in OrderIds :
          \A d \in {<<legacyPriv[o], legacyPriv'[o]>>, <<legacyPub[o], legacyPub'[o]>>} :
            /\ d[2].items = d[1].items
            /\ Promoted(d[1], d[2])
                 => ((\E rid \in Rids : ApprovedCommit(rid, o))
                       /\ d[2].status = EM_PREPARO)]_vars

C23_Witness ==
  \E s \in Slots :
    LET r == slot[s]
        o == <<r.rid, r.orderId>>
    IN /\ r.kind = "webhook" /\ Wrote(r) /\ safeStr(r.p.status) = APPROVED
       /\ priv[o].status = EM_PREPARO /\ priv[o].paidAt # NoTime
       /\ priv[o].items = DocNew.items
       /\ legacyPub[r.orderId].status = EM_PREPARO

\* none of the request's calls has failed
NoFailure(r) ==
  \A i \in 1..Len(r.log) :
    r.log[i] \notin {"readFail", "getFail", "commitFail", "createFail"}

\* C24: once an order has been promoted to em_preparo, a POST /pix for it
\* (none of whose calls fails) calls no create and is answered 409,
\* whatever notifications were delivered in between
C24_PaidOrderConflicts ==
  \A s \in Slots :
    LET r == slot[s]
        o == <<r.rid, r.orderId>>
    IN (/\ r.kind = "pix" /\ Has(r.log, "read") /\ NoFailure(r)
        /\ priv[o].status = EM_PREPARO)
         => /\ r.pc \in {"get", "done"}
            /\ ~CalledCreate(r)
            /\ Done(r) => r.res.code = 409

\* r follows a 200 answer of the sequence, and no call has failed since the
\* new charge
Follows(r) ==
  /\ r.kind = "pix"
  /\ r.hist.last.code = 200 /\ ~r.hist.failed
  /\ NoFailure(r)

C26_MirrorsAgree ==
  /\ \A o \in Orders :
       /\ priv[o].mp = pub[o].mp
       /\ priv[o].status = pub[o].status
       /\ priv[o].paidAt = pub[o].paidAt
  /\ \A o \in OrderIds : legacyPriv[o].mp = legacyPub[o].mp

C26_Witness ==
  /\ \E s \in Slots : slot[s].kind = "webhook" /\ Has(slot[s].log, "commitFail")
  /\ \E o \in OrderIds :
       /\ priv[<<<<"a">>, o>>].mp.payment_id # Null
       /\ priv[<<<<"b">>, o>>].mp.payment_id # Null
       /\ priv[<<<<"a">>, o>>].mp # priv[<<<<"b">>, o>>].mp
       /\ pub[<<<<"b">>, o>>].mp = priv[<<<<"b">>, o>>].mp
       /\ legacyPub[o].mp.payment_id # Null

\* the bucket in which a payment whose expiration is creation time plus 30
\* minutes was created
CreatedBucket(p) == (getTime(safeStr(p.date_of_expiration)) - ThirtyMin) \div ThirtyMin

\* the lookup answered with a pending payment of this order and amount,
\* made by POST /pix, that isFuture judges expired
FoundExpired(r) ==
  /\ Looked(r)
  /\ safeStr(r.existing.status) = PENDING
  /\ Truthy(safeStr(r.existing.date_of_expiration))
  /\ ~isFuture(safeStr(r.existing.date_of_expiration), r.tGet)
  /\ safeStr(r.existing.metadata_rid) = r.rid
  /\ safeStr(r.existing.metadata_orderId) = r.orderId
  /\ r.existing.transaction_amount = toFixed2(r.total.mills)

\* C27: a pending payment made in bucket b is judged expired only at times
\* of bucket b + 1 or later, and the create call that follows uses a key
\* other than the one that made the expired payment
C27_ExpiryPastBucket ==
  \A s \in Slots :
    LET r == slot[s]
    IN FoundExpired(r)
         => /\ r.tGet \div ThirtyMin >= CreatedBucket(r.existing) + 1
            /\ r.tKey # NoTime => r.idempotencyKey # r.existing.key

C27_Witness ==
  \E s \in Slots :
    LET r == slot[s]
    IN /\ FoundExpired(r) /\ Done(r)
       /\ r.res.code = 200 /\ r.res.reused = "false"
       /\ r.res.payment_id # r.paymentId
       /\ r.idempotencyKey # r.existing.key

\* the lookup of r answered with a payment pending and unexpired, and no
\* call of r has failed
FoundLive(r) ==
  /\ Looked(r) /\ NoFailure(r)
  /\ safeStr(r.existing.status) = PENDING
  /\ isFuture(safeStr(r.existing.date_of_expiration), r.tGet)

====
